---- MODULE Spec2Model ----
(***************************************************************************)
(* Model of the seating optimiser of src/main.py: the objective function   *)
(* get_total_familiarity, the single-run annealer simulated_annealing and  *)
(* the multi-run "keep the best" loop of the __main__ block.               *)
(*                                                                         *)
(* Python lists are objects: guests, initial_arrangement and (at first)    *)
(* best_arrangement are one and the same list.  The model keeps a heap of  *)
(* list objects and the names hold references into it, so that a write     *)
(* through one name is seen through every alias.                           *)
(*                                                                         *)
(* Temperatures are exact rationals <<numerator, denominator>> (the code   *)
(* uses binary floating point; the schedules modelled are powers of two,   *)
(* for which the float products are exact as well).  Probabilities and the *)
(* uniform draw are in thousandths.                                        *)
(***************************************************************************)
EXTENDS Integers, Sequences, FiniteSets, TLC

VARIABLES
    familiarity,            \* the N x N matrix of lines 153-157
    what_you_want_to_get,   \* 'min' or 'max' (line 126)
    schedule,               \* the (T, T_min, alpha) arguments of simulated_annealing
    K,                      \* the trial count (range(1000) in line 164)
    heap,                   \* the list objects, by reference
    arrangement,            \* simulated_annealing's local name: a reference
    best_arrangement,       \* a reference
    optimal_arrangement,    \* a reference: what the last call returned (line 165)
    best_familiarity,
    current_familiarity,    \* local of simulated_annealing (line 108)
    T,                      \* local of simulated_annealing: the temperature
    delta,                  \* local of simulated_annealing (line 111)
    accept_probability,     \* local of simulated_annealing (lines 113, 115), in thousandths
    n_iter,                 \* iterations of the while loop run by the current call
    trial,                  \* calls of simulated_annealing that have returned
    pc

vars == <<familiarity, what_you_want_to_get, schedule, K, heap, arrangement,
          best_arrangement, optimal_arrangement, best_familiarity, current_familiarity, T, delta,
          accept_probability, n_iter, trial, pc>>

(***************************************************************************)
(* Bounds                                                                  *)
(***************************************************************************)
\* the largest trial count explored (the program runs 1000 trials)
MaxTrials == 2

\* the value at which the iteration counter saturates (a schedule with
\* alpha = 1 never leaves the loop)
MaxIter == 3

(***************************************************************************)
(* The guests and the relationship ratings                                 *)
(***************************************************************************)
\* the first four of the fifteen guests of line 129
GuestNames == <<"Alex", "Aidan", "Luke", "Rees">>

N == Len(GuestNames)

Positions == 1..N

\* the keys of the relation dictionary: (guests[i], guests[j]) with i < j
Pairs == {p \in Positions \X Positions : p[1] < p[2]}

\* BuildFamiliarity without line 157: the lower triangle keeps the 5 of line 153
BuildFamiliarity_upper(relation) ==
    [p \in Positions \X Positions |-> IF p[1] < p[2] THEN relation[p] ELSE 5]

\* familiarity = np.ones(...) * 5, then both triangles filled from relation
BuildFamiliarity(relation) ==
    [p \in Positions \X Positions |->
        IF p[1] < p[2] THEN relation[p]
        ELSE IF p[2] < p[1] THEN relation[<<p[2], p[1]>>]
        ELSE 5]

\* the relation tables explored by the optimiser runs
Rel(ab, ac, ad, bc, bd, cd) ==
    (<<1, 2>> :> ab) @@ (<<1, 3>> :> ac) @@ (<<1, 4>> :> ad) @@
    (<<2, 3>> :> bc) @@ (<<2, 4>> :> bd) @@ (<<3, 4>> :> cd)

Relations ==
    { Rel(5, 1, 1, 1, 1, 5),     \* two pairs of friends, opposite ways to seat them
      Rel(1, 5, 1, 1, 5, 1),     \* friends seated apart at the start
      Rel(3, 3, 3, 3, 3, 3),     \* every arrangement scores the same
      Rel(1, 2, 4, 5, 3, 1) }

(***************************************************************************)
(* Rationals                                                               *)
(***************************************************************************)
RECURSIVE GCD(_, _)
GCD(a, b) == IF b = 0 THEN a ELSE GCD(b, a % b)

Abs(x) == IF x < 0 THEN -x ELSE x

Rat(n, d) ==
    IF n = 0 THEN <<0, 1>>
    ELSE LET g == GCD(Abs(n), d) IN <<n \div g, d \div g>>

RLess(a, b) == a[1] * b[2] < b[1] * a[2]

RMul(a, b) == Rat(a[1] * b[1], a[2] * b[2])

(***************************************************************************)
(* The heap of list objects                                                *)
(***************************************************************************)
\* "g" is the list made in line 129 (guests, initial_arrangement); "a" is
\* the list simulated_annealing's arrangement names once it is not "g";
\* "b" is the list best_arrangement names once it is not "g"; "o" is the
\* list optimal_arrangement names when it is neither "g" nor "b"; "n" is
\* the list new_arrangement names during one iteration.
Refs == {"g", "a", "b", "o", "n"}

NoList == <<>>

\* list.index: the first position holding x
index(list, x) == CHOOSE k \in 1..Len(list) :
                      /\ list[k] = x
                      /\ \A m \in 1..(k - 1) : list[m] # x

RECURSIVE SumTo(_, _)
SumTo(f, n) == IF n = 0 THEN 0 ELSE f[n] + SumTo(f, n - 1)

\* get_total_familiarity, reading the globals familiarity and guests (the
\* list h["g"]): position i is paired with position (i + 1) % len
get_total_familiarity(h, list) ==
    LET len == Len(list)
        term == [i \in 1..len |->
                    familiarity[index(h["g"], list[i]),
                                index(h["g"], list[(i % len) + 1])]]
    IN SumTo(term, len)

\* deepcopy replaced by a plain assignment: new_arrangement is arrangement
deepcopy_alias(h, ref) == [heap |-> h, ref |-> ref]

\* copy.deepcopy(arrangement): a new list object with the same items
deepcopy(h, ref) == [heap |-> [h EXCEPT !["n"] = h[ref]], ref |-> "n"]

\* the swap written as one assignment: position j is never written
swap_overwrite(list, i, j) == [list EXCEPT ![i] = list[j]]

\* new_arrangement[i], new_arrangement[j] = new_arrangement[j], new_arrangement[i]
swap(list, i, j) == [list EXCEPT ![i] = list[j], ![j] = list[i]]

\* the objects no name refers to any more are dropped, and the list that
\* arrangement (keep = "a"), best_arrangement (keep = "b") or
\* optimal_arrangement (keep = "o") now names is filed under that name
Rebind(h, ref, keep) ==
    IF ref = "g" THEN [ref |-> "g", heap |-> [h EXCEPT !["n"] = NoList, ![keep] = NoList]]
    ELSE [ref |-> keep, heap |-> [[h EXCEPT ![keep] = h[ref]] EXCEPT !["n"] = NoList]]

(***************************************************************************)
(* math.exp and the acceptance test                                        *)
(***************************************************************************)
\* math.exp(x) raises OverflowError when x > 709.782..., x = <<n, d>>
ExpOverflows(x) == x[1] * 1000 > 709782 * x[2]

\* math.exp(x) is the float 0.0 when x < -745.133...
ExpUnderflows(x) == (-x[1]) * 1000 > 745133 * x[2]

\* v * e^(-k), in thousandths, rounded down at each step
RECURSIVE TimesExpNeg(_, _)
TimesExpNeg(v, k) == IF k = 0 THEN v ELSE TimesExpNeg((v * 368) \div 1000, k - 1)

\* math.exp(x) in thousandths, as far as a comparison with a draw in [0, 1)
\* can tell: 1000 stands for every value >= 1, and a positive value below
\* one thousandth is 1.  For x < 0 the value is e^(-k) * e^(-f), k the whole
\* part of -x and f its fraction, e^(-f) by its series to the fifth power.
ExpMilli(x) ==
    IF x[1] >= 0 THEN 1000
    ELSE IF ExpUnderflows(x) THEN 0
    ELSE IF (-x[1]) >= 7 * x[2] THEN 1
    ELSE LET k  == (-x[1]) \div x[2]
             f  == (((-x[1]) % x[2]) * 1000) \div x[2]
             t2 == (f * f) \div 2000
             t3 == (t2 * f) \div 3000
             t4 == (t3 * f) \div 4000
             t5 == (t4 * f) \div 5000
             v  == TimesExpNeg(1000 - f + t2 - t3 + t4 - t5, k)
         IN IF v < 1 THEN 1 ELSE IF v > 999 THEN 999 ELSE v

\* TryExp without the except clause: the OverflowError leaves the function
TryExp_uncaught(d, temp) ==
    LET x == Rat((-d) * temp[2], temp[1])
    IN [raised |-> ExpOverflows(x),
        accept_probability |-> IF ExpOverflows(x) THEN 0 ELSE ExpMilli(x)]

\* lines 112-115: try: math.exp(-delta / T)  except OverflowError: 0
TryExp(d, temp) ==
    LET x == Rat((-d) * temp[2], temp[1])
    IN [raised |-> FALSE,
        accept_probability |-> IF ExpOverflows(x) THEN 0 ELSE ExpMilli(x)]

\* the values random.random() is drawn from, in thousandths
Draws == {0, 500, 999}

\* the condition of line 117
Accepts(d, optimize, u, p) ==
    \/ d < 0 /\ optimize = "min"
    \/ d > 0 /\ optimize = "max"
    \/ u < p

\* the test of line 166 with the two comparisons exchanged
KeepsNew_swapped(optimize, new_score, best_score) ==
    \/ optimize = "min" /\ new_score > best_score
    \/ optimize = "max" /\ new_score < best_score

\* the test of line 166 with <= and >=
KeepsNew_ties(optimize, new_score, best_score) ==
    \/ optimize = "min" /\ new_score <= best_score
    \/ optimize = "max" /\ new_score >= best_score

\* the test of line 166 left out: the latest result is always kept
KeepsNew_always(optimize, new_score, best_score) == TRUE

\* the test of line 166
KeepsNew(optimize, new_score, best_score) ==
    \/ optimize = "min" /\ new_score < best_score
    \/ optimize = "max" /\ new_score > best_score

(***************************************************************************)
(* The cooling schedules passed to simulated_annealing                     *)
(***************************************************************************)
Sched(t, tmin, a) == [T |-> t, T_min |-> tmin, alpha |-> a]

\* T > 0, T_min > 0, T_min < T and 0 < alpha < 1
ValidSchedule(s) ==
    /\ s.T[1] > 0
    /\ s.T_min[1] > 0
    /\ RLess(s.T_min, s.T)
    /\ s.alpha[1] > 0
    /\ RLess(s.alpha, <<1, 1>>)

Schedules ==
    { Sched(<<1, 32>>, <<1, 256>>, <<1, 2>>),   \* cold: 3 iterations
      Sched(<<4, 1>>, <<1, 1>>, <<1, 2>>),      \* hot: 2 iterations
      Sched(<<0, 1>>, <<1, 4>>, <<1, 2>>),      \* T <= 0
      Sched(<<1, 1>>, <<2, 1>>, <<1, 2>>),      \* T_min >= T
      Sched(<<2, 1>>, <<1, 1>>, <<1, 1>>) }     \* alpha = 1

\* line 119 left out: the temperature never falls
Cool_none(temp, alpha) == temp

\* T = T * alpha (line 119)
Cool(temp, alpha) == RMul(temp, alpha)

(***************************************************************************)
(* The program: lines 124-172                                              *)
(***************************************************************************)
NoRef == "none"

StartHeap == [r \in Refs |-> IF r = "g" THEN GuestNames ELSE NoList]

\* the state when the loop of line 164 is reached
Init ==
    /\ familiarity \in {BuildFamiliarity(r) : r \in Relations}
    /\ what_you_want_to_get \in {"min", "max"}
    /\ schedule \in Schedules
    /\ K \in 1..MaxTrials
    /\ heap = StartHeap
    /\ arrangement = NoRef
    /\ best_arrangement = "g"
    /\ optimal_arrangement = NoRef
    /\ best_familiarity = get_total_familiarity(heap, heap["g"])
    /\ current_familiarity = 0
    /\ T = <<0, 1>>
    /\ delta = 0
    /\ accept_probability = 0
    /\ n_iter = 0
    /\ trial = 0
    /\ pc = "main"

\* line 165: the call simulated_annealing(initial_arrangement, ...)
StartTrial ==
    /\ pc = "main"
    /\ trial < K
    /\ arrangement' = "g"
    /\ T' = schedule.T
    /\ n_iter' = 0
    /\ current_familiarity' = 0
    /\ delta' = 0
    /\ accept_probability' = 0
    /\ pc' = "anneal"
    /\ UNCHANGED <<familiarity, what_you_want_to_get, schedule, K, heap,
                   best_arrangement, optimal_arrangement, best_familiarity, trial>>

\* lines 103-119: one iteration of the loop, with the positions i, j drawn
\* by random.sample and the value u drawn by random.random.  The swap of
\* line 106 is the same for (i, j) and (j, i), so i < j gives every candidate.
AnnealStep(i, j, u) ==
    /\ pc = "anneal"
    /\ RLess(schedule.T_min, T)
    /\ \E c \in {deepcopy(heap, arrangement)} :
       \E h \in {[c.heap EXCEPT ![c.ref] = swap(c.heap[c.ref], i, j)]} :
       \E cur \in {get_total_familiarity(h, h[arrangement])} :
       \E new \in {get_total_familiarity(h, h[c.ref])} :
       \E d \in {new - cur} :
       \E e \in {TryExp(d, T)} :
       \E acc \in {Accepts(d, what_you_want_to_get, u, e.accept_probability)} :
       \E nxt \in {Rebind(h, IF acc THEN c.ref ELSE arrangement, "a")} :
          IF e.raised
          THEN /\ pc' = "error"
               /\ current_familiarity' = cur
               /\ delta' = d
               /\ UNCHANGED <<heap, arrangement, accept_probability, T, n_iter>>
          ELSE /\ pc' = "anneal"
               /\ heap' = nxt.heap
               /\ arrangement' = nxt.ref
               /\ current_familiarity' = cur
               /\ delta' = d
               /\ accept_probability' = e.accept_probability
               /\ T' = Cool(T, schedule.alpha)
               /\ n_iter' = IF n_iter < MaxIter THEN n_iter + 1 ELSE n_iter
    /\ UNCHANGED <<familiarity, what_you_want_to_get, schedule, K,
                   best_arrangement, optimal_arrangement, best_familiarity, trial>>

Anneal == \E i \in Positions : \E j \in {k \in Positions : i < k} : \E u \in Draws :
              AnnealStep(i, j, u)

\* lines 120 and 165-168: the loop of line 103 is left, the arrangement is
\* returned as optimal_arrangement and the best is updated
ReturnTrial ==
    /\ pc = "anneal"
    /\ ~RLess(schedule.T_min, T)
    /\ \E score \in {get_total_familiarity(heap, heap[arrangement])} :
          IF KeepsNew(what_you_want_to_get, score, best_familiarity)
          THEN \E kept \in {Rebind(heap, arrangement, "b")} :
               /\ optimal_arrangement' = kept.ref
               /\ best_arrangement' = kept.ref
               /\ heap' = [kept.heap EXCEPT !["a"] = NoList, !["o"] = NoList]
               /\ best_familiarity' = get_total_familiarity(kept.heap, kept.heap[kept.ref])
          ELSE \E kept \in {Rebind(heap, arrangement, "o")} :
               /\ optimal_arrangement' = kept.ref
               /\ heap' = [kept.heap EXCEPT !["a"] = NoList]
               /\ UNCHANGED <<best_arrangement, best_familiarity>>
    /\ arrangement' = NoRef
    /\ T' = <<0, 1>>
    /\ current_familiarity' = 0
    /\ delta' = 0
    /\ accept_probability' = 0
    /\ trial' = trial + 1
    /\ pc' = "main"
    /\ UNCHANGED <<familiarity, what_you_want_to_get, schedule, K, n_iter>>

\* lines 170-172: the loop of line 164 is over, the best is reported
Finish ==
    /\ pc = "main"
    /\ trial = K
    /\ pc' = "done"
    /\ UNCHANGED <<familiarity, what_you_want_to_get, schedule, K, heap, arrangement,
                   best_arrangement, optimal_arrangement, best_familiarity,
                   current_familiarity, T, delta, accept_probability, n_iter, trial>>

Next == StartTrial \/ Anneal \/ ReturnTrial \/ Finish

Spec == Init /\ [][Next]_vars

\* the program with a single trial, run by an interpreter that does not
\* stop: a step that can be taken is taken
InitSingle == Init /\ K = 1

FairSpec == InitSingle /\ [][Next]_vars /\ WF_vars(Next)

(***************************************************************************)
(* The objective function on its own: get_total_familiarity applied to an  *)
(* arrangement, then to its rotations and reversals                        *)
(***************************************************************************)
\* the ratings the matrices of this specification are built from
ObjRatings == {1, 2, 5}

SeatOrders == {q \in [Positions -> Positions] : \A a, b \in Positions : q[a] = q[b] => a = b}

\* list[1:] + list[:1]
Rotate(list) == [k \in 1..Len(list) |-> list[(k % Len(list)) + 1]]

\* list[::-1]
Reverse(list) == [k \in 1..Len(list) |-> list[Len(list) + 1 - k]]

InitObj ==
    /\ familiarity \in {BuildFamiliarity(r) : r \in [Pairs -> ObjRatings]}
    /\ what_you_want_to_get = "max"
    /\ schedule = Sched(<<4, 1>>, <<1, 1>>, <<1, 2>>)
    /\ K = 1
    /\ \E q \in SeatOrders :
          heap = [StartHeap EXCEPT !["a"] = [k \in Positions |-> GuestNames[q[k]]]]
    /\ arrangement = "a"
    /\ best_arrangement = "g"
    /\ optimal_arrangement = NoRef
    /\ best_familiarity = get_total_familiarity(heap, heap["g"])
    /\ current_familiarity = get_total_familiarity(heap, heap["a"])
    /\ T = <<0, 1>>
    /\ delta = 0
    /\ accept_probability = 0
    /\ n_iter = 0
    /\ trial = 0
    /\ pc = "objective"

\* the objective of the arrangement changed to `list`, and its difference
\* from the objective before the change
Reevaluate(list, how) ==
    /\ pc \in {"objective", "rotated", "reversed"}
    /\ heap' = [heap EXCEPT !["a"] = list]
    /\ current_familiarity' = get_total_familiarity(heap, list)
    /\ delta' = current_familiarity' - current_familiarity
    /\ pc' = how
    /\ UNCHANGED <<familiarity, what_you_want_to_get, schedule, K, arrangement,
                   best_arrangement, optimal_arrangement, best_familiarity, T,
                   accept_probability, n_iter, trial>>

ObjRotate == Reevaluate(Rotate(heap["a"]), "rotated")

ObjReverse == Reevaluate(Reverse(heap["a"]), "reversed")

NextObj == ObjRotate \/ ObjReverse

SpecObj == InitObj /\ [][NextObj]_vars

(***************************************************************************)
(* Properties                                                              *)
(***************************************************************************)
GuestSet == {GuestNames[k] : k \in Positions}

IsArrangement(list) ==
    /\ Len(list) = N
    /\ {list[k] : k \in 1..Len(list)} = GuestSet

\* the objective of the starting arrangement, from the ratings alone
StartScore ==
    familiarity[1, 2] + familiarity[2, 3] + familiarity[3, 4] + familiarity[4, 1]

LoopOver == pc = "anneal" /\ ~RLess(schedule.T_min, T)

\* C1: during a call of simulated_annealing, after every iteration and when
\* the loop is left, the current arrangement is a permutation of the guests:
\* N items, every guest present, none twice.
C1_ArrangementIsPermutation ==
    pc = "anneal" => IsArrangement(heap[arrangement])

\* a call has made two iterations and its arrangement is no longer the
\* starting one
C1_Witness ==
    /\ pc = "anneal"
    /\ n_iter >= 2
    /\ arrangement = "a"
    /\ heap["a"] # GuestNames

\* C2: best_familiarity is never worse than the objective of the starting
\* arrangement: at most it under 'min', at least it under 'max', after every
\* trial and at the end; and it is the objective of best_arrangement.
C2_BestNeverWorseThanStart ==
    /\ what_you_want_to_get = "min" => best_familiarity <= StartScore
    /\ what_you_want_to_get = "max" => best_familiarity >= StartScore
    /\ best_familiarity = get_total_familiarity(StartHeap, heap[best_arrangement])

\* the run is over after two trials, the last of which came back worse than
\* the start, and the best is strictly better than the start
C2_Witness ==
    /\ pc = "done"
    /\ trial = 2
    /\ best_familiarity # StartScore
    /\ \/ what_you_want_to_get = "min"
          /\ get_total_familiarity(StartHeap, heap[optimal_arrangement]) > StartScore
       \/ what_you_want_to_get = "max"
          /\ get_total_familiarity(StartHeap, heap[optimal_arrangement]) < StartScore

\* C3: the list that guests and initial_arrangement name never changes, and
\* every call of simulated_annealing starts from it.
C3_StartNeverChanges ==
    /\ heap["g"] = GuestNames
    /\ pc = "anneal" /\ n_iter = 0 => arrangement = "g"

\* a later call starts after an earlier one left a different best
C3_Witness ==
    /\ pc = "anneal"
    /\ n_iter = 0
    /\ trial >= 1
    /\ best_arrangement = "b"
    /\ heap["b"] # GuestNames

\* C4: when a trial returns, the best arrangement and score become the
\* trial's if and only if the trial's score is strictly better than the best
\* score; otherwise (a tie included) both stay as they were.
C4_KeepOnlyStrictlyBetter ==
    [][pc = "anneal" /\ pc' = "main" =>
        LET score == get_total_familiarity(StartHeap, heap[arrangement])
            strictly == \/ what_you_want_to_get = "min" /\ score < best_familiarity
                        \/ what_you_want_to_get = "max" /\ score > best_familiarity
        IN IF strictly
           THEN /\ heap'[best_arrangement'] = heap[arrangement]
                /\ best_familiarity' = score
           ELSE /\ heap'[best_arrangement'] = heap[best_arrangement]
                /\ best_familiarity' = best_familiarity]_vars

\* a trial has returned an arrangement other than the best one with the
\* best's score, and the best was kept
C4_Witness ==
    /\ pc = "main"
    /\ trial >= 1
    /\ optimal_arrangement # NoRef
    /\ heap[optimal_arrangement] # heap[best_arrangement]
    /\ get_total_familiarity(StartHeap, heap[optimal_arrangement]) = best_familiarity

\* C5 as stated: with one trial, the arrangement reported is the one the
\* single call returned, and the score reported is its score.
C5_SingleTrialReturnsRunResult ==
    pc = "done" /\ K = 1 =>
        /\ heap[best_arrangement] = heap[optimal_arrangement]
        /\ best_familiarity = get_total_familiarity(StartHeap, heap[optimal_arrangement])

\* C5 amended: with one trial there is one call, and its result is reported
\* only if it scores strictly better than the starting arrangement;
\* otherwise the starting arrangement and its score are reported.
C5_SingleTrialAgainstStart ==
    pc = "done" /\ K = 1 =>
        LET score == get_total_familiarity(StartHeap, heap[optimal_arrangement])
            strictly == \/ what_you_want_to_get = "min" /\ score < StartScore
                        \/ what_you_want_to_get = "max" /\ score > StartScore
        IN /\ trial = 1
           /\ IF strictly
              THEN /\ best_arrangement = optimal_arrangement
                   /\ best_familiarity = score
              ELSE /\ best_arrangement = "g"
                   /\ best_familiarity = StartScore

\* one trial, whose result scored worse than the start, so that the start
\* is what is reported
C5_Witness ==
    /\ pc = "done"
    /\ K = 1
    /\ best_arrangement = "g"
    /\ optimal_arrangement = "o"
    /\ get_total_familiarity(StartHeap, heap["o"]) # StartScore

\* C6: for the matrix the program builds, the objective of an arrangement
\* is the objective of its rotation and of its reversal: re-evaluating after
\* either changes nothing.
C6_RotationReversalInvariant ==
    pc \in {"rotated", "reversed"} =>
        /\ delta = 0
        /\ current_familiarity = get_total_familiarity(heap, heap["a"])

\* an arrangement other than the guest list has been reversed, under ratings
\* that are not all alike
C6_Witness ==
    /\ pc = "reversed"
    /\ heap["a"] # GuestNames
    /\ heap["a"] # Reverse(GuestNames)
    /\ familiarity[1, 2] # familiarity[2, 3]
    /\ familiarity[1, 3] # familiarity[2, 4]

\* C7: a call with an invalid schedule is rejected before any iteration: it
\* neither iterates nor returns.
C7_InvalidScheduleRejected ==
    ~ValidSchedule(schedule) => n_iter = 0 /\ trial = 0

\* the temperature the last iteration ran at (alpha > 0)
PrevT == Rat(T[1] * schedule.alpha[2], T[2] * schedule.alpha[1])

\* -d / temp
ExpArg(d, temp) == Rat((-d) * temp[2], temp[1])

\* a step of the loop in which math.exp(-delta / T) overflows
OverflowStep ==
    /\ pc = "anneal"
    /\ pc' # "main"
    /\ T[1] > 0
    /\ ExpOverflows(ExpArg(delta', T))

\* C8 as stated: in an iteration in which the exponential overflows no
\* error leaves the annealer, the probability is 0, the move is rejected (the
\* arrangement is as before) and T is multiplied by alpha.
C8_OverflowRejects ==
    [][OverflowStep =>
        /\ pc' = "anneal"
        /\ accept_probability' = 0
        /\ heap'[arrangement'] = heap[arrangement]
        /\ T' = RMul(T, schedule.alpha)]_vars

\* C8 amended: in such an iteration no error leaves the annealer, the
\* probability is 0 and T is multiplied by alpha; delta is negative; under
\* 'max' the move is rejected, under 'min' it is an improving move and is
\* accepted by the direction test.
C8_OverflowClamped ==
    [][OverflowStep =>
        /\ pc' = "anneal"
        /\ accept_probability' = 0
        /\ T' = RMul(T, schedule.alpha)
        /\ delta' < 0
        /\ what_you_want_to_get = "max" => heap'[arrangement'] = heap[arrangement]
        /\ what_you_want_to_get = "min" =>
              /\ heap'[arrangement'] # heap[arrangement]
              /\ get_total_familiarity(StartHeap, heap'[arrangement'])
                    = get_total_familiarity(StartHeap, heap[arrangement]) + delta']_vars

\* under 'min' an iteration has just overflowed and taken its candidate
C8_Witness ==
    /\ pc = "anneal"
    /\ n_iter >= 1
    /\ what_you_want_to_get = "min"
    /\ schedule.alpha[1] > 0
    /\ T[1] > 0
    /\ ExpOverflows(ExpArg(delta, PrevT))
    /\ accept_probability = 0
    /\ get_total_familiarity(StartHeap, heap[arrangement]) = current_familiarity + delta

\* C9: in every iteration a candidate that improves in the chosen direction
\* is accepted whatever the draw, and for a candidate that worsens there is
\* a draw for which it is rejected.
C9_WorseningIsProbabilistic ==
    pc = "anneal" /\ RLess(schedule.T_min, T) /\ T[1] > 0 =>
        \A i \in Positions : \A j \in Positions \ {i} :
            LET new == swap(heap[arrangement], i, j)
                d == get_total_familiarity(heap, new)
                        - get_total_familiarity(heap, heap[arrangement])
                p == TryExp(d, T).accept_probability
                improving == \/ d < 0 /\ what_you_want_to_get = "min"
                             \/ d > 0 /\ what_you_want_to_get = "max"
                worsening == \/ d > 0 /\ what_you_want_to_get = "min"
                             \/ d < 0 /\ what_you_want_to_get = "max"
            IN /\ improving => \A u \in Draws : Accepts(d, what_you_want_to_get, u, p)
               /\ worsening => \E u \in Draws : ~Accepts(d, what_you_want_to_get, u, p)

\* the number of times the loop runs, from the schedule alone
RECURSIVE CoolingLength(_, _, _)
CoolingLength(temp, tmin, alpha) ==
    IF RLess(tmin, temp) THEN 1 + CoolingLength(RMul(temp, alpha), tmin, alpha) ELSE 0

\* C10: with a valid schedule every iteration, accepted or not, multiplies T
\* by alpha, so T falls; the loop is left exactly when T <= T_min, after a
\* number of iterations fixed by T, T_min and alpha alone; and every call
\* returns.
C10_AnnealerTerminates ==
    /\ [][ValidSchedule(schedule) /\ pc = "anneal" /\ pc' = "anneal" =>
            /\ T' = RMul(T, schedule.alpha)
            /\ RLess(T', T)
            /\ n_iter' = n_iter + 1]_vars
    /\ [](ValidSchedule(schedule) /\ pc = "anneal" =>
            IF RLess(schedule.T_min, T)
            THEN n_iter < CoolingLength(schedule.T, schedule.T_min, schedule.alpha)
            ELSE n_iter = CoolingLength(schedule.T, schedule.T_min, schedule.alpha))
    /\ (ValidSchedule(schedule) /\ pc = "anneal") ~> (pc = "main")

\* a call with a valid schedule has returned after three iterations in
\* which the arrangement changed
C10_Witness ==
    /\ pc = "main"
    /\ trial >= 1
    /\ ValidSchedule(schedule)
    /\ n_iter = 3
    /\ optimal_arrangement # "g"

====
